---- MODULE Spec2Model ----
(***************************************************************************)
(* A model of pyknp's Analyzer (src/pyknp/utils/analyzer.py) and of the    *)
(* KNP front end (src/pyknp/knp/knp.py): the lazy choice of a backend, the *)
(* conversion of a Juman++ lattice into one JUMAN block per rank, and the  *)
(* queries parse_juman_result sends.                                       *)
(*                                                                         *)
(* A Python str is a sequence of one-character strings: "EOS" is           *)
(* <<"E", "O", "S">>.  None is the empty tuple.                            *)
(***************************************************************************)
EXTENDS Integers, Sequences, FiniteSets, TLC

VARIABLES
    src,          \* the lattice the tokenizer emitted, record by record
    pattern,      \* KNP.pattern of the receiver
    lattice_all,  \* the text handed to lattice_all2juman_lines
    out,          \* what lattice_all2juman_lines returned or raised
    an,           \* the Analyzer instance: its attributes
    made,         \* the Socket and Subprocess objects constructed so far
    sent,         \* the queries the backends received, in order
    req,          \* per caller: the arguments of its current or last query
    ret,          \* per caller: what its last query returned or raised
    pc,           \* per caller: where it stands in Analyzer.query
    tmp,          \* per caller: the backend it constructed and has not stored
    juman_format, \* the juman_format handed to parse_juman_result
    result,       \* what parse_juman_result returned or raised
    args,         \* the arguments of KNP(...) and what the file system holds
    knp           \* the KNP instance constructed, or what KNP(...) raised

lattice_vars == <<src, pattern, lattice_all, out>>

analyzer_vars == <<an, made, sent, req, ret, pc, tmp>>

knp_vars == <<juman_format, result, args, knp>>

vars ==
    <<src, pattern, lattice_all, out, an, made, sent, req, ret, pc, tmp,
      juman_format, result, args, knp>>

(***************************************************************************)
(* Bounds of the model.                                                    *)
(***************************************************************************)
MaxLines == 3

\* queries started on one Analyzer
MaxCalls == 3

\* records of a lattice handed to parse_juman_result
MaxParseLines == 2

(***************************************************************************)
(* Python str and list primitives.                                         *)
(***************************************************************************)
\* None, and a value that may be None instead: a str is a tuple of
\* characters, a reference to the k-th object constructed is <<k>>
None == <<>>

ref(k) == <<k>>

\* raised: no exception, the call returned
Ok == "ok"

\* The characters of the model in code point order: str comparison, which
\* sorted() uses on the rank keys, compares code points.
Alphabet ==
    << "\t", "\n", " ", "\"", "#", "$", "*", "-",
       "0", "1", "2", "3", "4", "5", "6", "7", "8", "9", ":", ";", "@",
       "E", "K", "O", "P", "R", "S", "^",
       "a", "b", "c", "d", "e", "f", "g", "h", "k", "p", "r", "y", "|" >>

ord(c) == CHOOSE i \in 1..Len(Alphabet) : Alphabet[i] = c

\* a < b for two str
RECURSIVE str_lt(_, _)
str_lt(a, b) ==
    IF b = <<>> THEN FALSE
    ELSE IF a = <<>> THEN TRUE
    ELSE IF a[1] # b[1] THEN ord(a[1]) < ord(b[1])
    ELSE str_lt(Tail(a), Tail(b))

\* s.split(c), c one character: one part more than there are c in s
split(s, c) ==
    LET at == {i \in 1..Len(s) : s[i] = c}
        n == Cardinality(at)
        \* where the k-th c is; 0 and Len(s) + 1 stand for the two ends
        cut(k) ==
            IF k = 0 THEN 0
            ELSE IF k = n + 1 THEN Len(s) + 1
            ELSE CHOOSE i \in at : Cardinality({j \in at : j < i}) = k - 1
    IN  [k \in 1..(n + 1) |-> SubSeq(s, cut(k - 1) + 1, cut(k) - 1)]

\* sep.join(parts)
RECURSIVE join(_, _)
join(sep, parts) ==
    IF parts = <<>> THEN <<>>
    ELSE IF Len(parts) = 1 THEN parts[1]
    ELSE parts[1] \o sep \o join(sep, Tail(parts))

\* s.startswith(p)
startswith(s, p) == Len(s) >= Len(p) /\ SubSeq(s, 1, Len(p)) = p

\* xs[-1]
last(xs) == xs[Len(xs)]

\* sorted(keys): the keys of a dict are distinct
RECURSIVE sorted(_)
sorted(S) ==
    IF S = {} THEN <<>>
    ELSE LET m == CHOOSE x \in S : \A y \in S \ {x} : str_lt(x, y)
         IN  <<m>> \o sorted(S \ {m})

EOS == <<"E", "O", "S">>
NL == <<"\n">>
TAB == <<"\t">>
SP == <<" ">>

(***************************************************************************)
(* Analyzer.__init__ and Analyzer.query                                    *)
(***************************************************************************)
Analyzer__init__(backend, server, port, socket_option, command) ==
    [backend |-> backend, server |-> server, port |-> port, socket |-> None,
     socket_option |-> socket_option, subprocess |-> None,
     command |-> command]

\* bool(x) of an attribute that holds None or a backend object
truthy(x) == x # None

\* a slip: the test forgets self.subprocess
needs_backend_socket_only(a) == ~truthy(a.socket)

\* if not self.socket and not self.subprocess:
needs_backend(a) == ~truthy(a.socket) /\ ~truthy(a.subprocess)

\* a slip: the kind is taken from the keyword backend, not from the server
new_backend_by_keyword(a) ==
    IF a.backend = "socket"
    THEN [kind |-> "Socket", args |-> <<a.server, a.port, a.socket_option>>]
    ELSE [kind |-> "Subprocess", args |-> <<a.command>>]

\* if self.server is not None: Socket(...) else: Subprocess(...)
new_backend(a) ==
    IF a.server # None
    THEN [kind |-> "Socket", args |-> <<a.server, a.port, a.socket_option>>]
    ELSE [kind |-> "Subprocess", args |-> <<a.command>>]

\* self.socket = ... or self.subprocess = ..., b the object constructed
store_backend(a, b) ==
    IF a.server # None THEN [a EXCEPT !.socket = b]
    ELSE [a EXCEPT !.subprocess = b]

\* if self.socket: self.socket.query(...) else: self.subprocess.query(...)
target(a) == IF truthy(a.socket) THEN a.socket ELSE a.subprocess

\* Socket.query and Subprocess.query: the backend receives the text and
\* the pattern and answers with reply
backend_query(log, b, input_str, p, reply) ==
    Append(log, [to |-> b, input_str |-> input_str, pattern |-> p,
                 reply |-> reply])

\* One whole call of Analyzer.query.  ok: the constructor of the backend,
\* if it runs, succeeds; reply: what the backend answers.
Analyzer_query(a, objs, log, input_str, p, ok, reply) ==
    IF needs_backend(a) /\ ~ok
    THEN [an |-> a, made |-> objs, sent |-> log,
          ret |-> [raised |-> "BackendError", value |-> <<>>]]
    ELSE LET objs1 == IF needs_backend(a) THEN Append(objs, new_backend(a))
                      ELSE objs
             a1 == IF needs_backend(a) THEN store_backend(a, ref(Len(objs1)))
                   ELSE a
         IN  [an |-> a1, made |-> objs1,
              sent |-> backend_query(log, target(a1), input_str, p, reply),
              ret |-> [raised |-> Ok, value |-> reply]]

(***************************************************************************)
(* The callers of one Analyzer.                                            *)
(***************************************************************************)
Callers == {1, 2}

Host == <<"h">>

\* port=31000
DefaultPort == 31000

\* socket_option='RUN -tab -normal\n'
SocketOption == <<"RUN -tab -normal\n">>

KnpCommand == <<"k", "n", "p">>

TabOption == <<"-", "t", "a", "b">>

RcFile == <<"r", "c">>

\* cmds = [self.command] + self.options; if self.rcfile: cmds += ['-r', ...]
knp_cmds(command, options, rcfile) ==
    <<command>> \o options
        \o (IF rcfile # <<>> THEN << <<"-", "r">>, rcfile >> ELSE <<>>)

Commands ==
    {knp_cmds(KnpCommand, <<TabOption>>, <<>>),
     knp_cmds(KnpCommand, <<TabOption>>, RcFile)}

\* the Analyzer instances: the keyword backend and the server are given
\* independently of each other; without a server there is a command
Analyzers ==
    {a \in {Analyzer__init__(b, s, IF s = None THEN None ELSE <<DefaultPort>>,
                             IF s = None THEN None ELSE SocketOption, c) :
                b \in {"socket", "subprocess"}, s \in {None, Host},
                c \in Commands \cup {None}} :
        a.server = None => a.command # None}

Inputs == {<<"a", "\n">>, <<"b", "\n">>}

Replies == {<<"k", "\n">>, <<"h", "\n">>}

\* a slip: the pattern is sent without its anchors
regex_of_unanchored(p) == p

\* pattern=r'^%s$' % self.pattern
regex_of(p) == <<"^">> \o p \o <<"$">>

NoReq == [input_str |-> <<>>, pattern |-> <<>>]

NotCalled == [raised |-> "not called", value |-> <<>>]

AnalyzerIdle ==
    /\ made = <<>>
    /\ sent = <<>>
    /\ req = [c \in Callers |-> NoReq]
    /\ ret = [c \in Callers |-> NotCalled]
    /\ pc = [c \in Callers |-> "idle"]
    /\ tmp = [c \in Callers |-> None]

KnpIdle ==
    /\ juman_format = "DEFAULT"
    /\ result = NotCalled
    /\ args = None
    /\ knp = NotCalled

\* queries started so far
Started == Cardinality({c \in Callers : pc[c] # "idle"}) + Len(sent)

(***************************************************************************)
(* KNP.lattice2juman_line                                                  *)
(***************************************************************************)
\* the literal the code puts before values[6] (a Japanese word followed by
\* a colon in the source; TLA+ strings are ASCII)
RepTag == <<"R", "e", "p", ":">>

\* values[i] of Python is values[i + 1] here
lattice2juman_line(values, the_same_mrph_id) ==
    LET features == <<RepTag \o values[7]>> \o split(values[18], "|")
        juman_values ==
            << values[6], values[8], values[9], values[10], values[11],
               values[12], values[13], values[14], values[15], values[16],
               values[17], <<"\"">> \o join(SP, features) \o <<"\"">> >>
        juman_line == join(SP, juman_values)
    IN  IF the_same_mrph_id THEN <<"@", " ">> \o juman_line ELSE juman_line

(***************************************************************************)
(* KNP.lattice_all2juman_lines                                             *)
(***************************************************************************)
\* comment, prev_id = '', '0'
InitialPrevId == <<"0">>

\* juman_lines[rank].append(l) on a defaultdict(list)
dd_append(d, rank, l) ==
    IF rank \in DOMAIN d THEN [d EXCEPT ![rank] = Append(@, l)]
    ELSE d @@ (rank :> <<l>>)

\* a slip: the line goes to the first of its ranks only
append_first_rank(d, rs, l) == dd_append(d, rs[1], l)

\* for rank in ranks.split(';'): juman_lines[rank].append(l)
RECURSIVE append_all(_, _, _)
append_all(d, rs, l) ==
    IF rs = <<>> THEN d
    ELSE append_all(dd_append(d, rs[1], l), Tail(rs), l)

\* the_same_mrph_id = (values[1] == prev_id)
same_mrph_id(values, prev_id) == values[2] = prev_id

\* a slip: prev_id is never updated
next_prev_id_stale(values, prev_id, the_same_mrph_id) == prev_id

\* if not the_same_mrph_id: prev_id = values[1]
next_prev_id(values, prev_id, the_same_mrph_id) ==
    IF the_same_mrph_id THEN prev_id ELSE values[2]

\* the loop's locals before the first line
loop_init ==
    [comment |-> <<>>, prev_id |-> InitialPrevId, juman_lines |-> <<>>,
     raised |-> Ok]

\* one turn of the loop over lattice_all.split('\n')
loop_body(st, line) ==
    IF st.raised # Ok THEN st
    ELSE IF startswith(line, <<"#">>) THEN [st EXCEPT !.comment = line]
    ELSE IF line = EOS THEN st
    ELSE LET values == split(line, "\t")
             ranks == last(split(last(split(line, "|")), ":"))
         IN  IF Len(values) < 18 THEN [st EXCEPT !.raised = "IndexError"]
             ELSE LET the_same_mrph_id == same_mrph_id(values, st.prev_id)
                      l == lattice2juman_line(values, the_same_mrph_id)
                  IN  [st EXCEPT
                         !.prev_id = next_prev_id(values, @, the_same_mrph_id),
                         !.juman_lines = append_all(@, split(ranks, ";"), l)]

RECURSIVE loop(_, _)
loop(st, lines) ==
    IF lines = <<>> THEN st ELSE loop(loop_body(st, lines[1]), Tail(lines))

\* '{0}\n{1}\nEOS'.format(comment, '\n'.join(lines))
block_format(comment, lines) == comment \o NL \o join(NL, lines) \o NL \o EOS

lattice_all2juman_lines(text) ==
    LET st == loop(loop_init, split(text, "\n"))
        keys == sorted(DOMAIN st.juman_lines)
    IN  IF st.raised # Ok THEN [raised |-> st.raised, value |-> <<>>]
        ELSE [raised |-> Ok,
              value |-> [i \in 1..Len(keys) |->
                            block_format(st.comment, st.juman_lines[keys[i]])]]

(***************************************************************************)
(* The lattice text a tokenizer emits: one line per record, 18 fields      *)
(* separated by tabs, the last one a '|'-separated feature list whose last *)
(* entry holds the ranks after its colon.                                  *)
(***************************************************************************)
Surfaces == <<"a", "b", "c", "d", "e">>

Ids == {<<"0">>, <<"1">>}

\* the rank annotations of a record: well formed ones, one with an empty
\* rank set and one without any annotation
WellFormedRanks ==
    { << <<"1">> >>, << <<"2">> >>, << <<"1">>, <<"2">> >>,
      << <<"1", "0">> >> }

Annotations ==
    [kind : {"ranks"}, ranks : WellFormedRanks]
        \cup {[kind |-> "empty", ranks |-> <<>>],
              [kind |-> "missing", ranks |-> <<>>]}

Records == [id : Ids, ann : Annotations]

feature_field(ann) ==
    CASE ann.kind = "ranks" -> <<"f", "|", "r", ":">> \o join(<<";">>, ann.ranks)
      [] ann.kind = "empty" -> <<"f", "|", "r", ":">>
      [] ann.kind = "missing" -> <<"f">>

\* the 18 fields of record i
fields(i, rec) ==
    << <<"-">>, rec.id, <<"0">>, <<"0">>, <<"1">>, <<Surfaces[i]>>, <<"p">>,
       <<"y">>, <<"g">>, <<"h">>, <<"3">>, <<"b">>, <<"4">>, <<"k">>,
       <<"5">>, <<"K">>, <<"6">>, feature_field(rec.ann) >>

record_line(i, rec) == join(TAB, fields(i, rec))

CommentLine == <<"#", "c">>

LatticesOf(records, max) ==
    [comment : {<<>>, CommentLine},
     recs : UNION {[1..n -> records] : n \in 0..max}]

Lattices == LatticesOf(Records, MaxLines)

\* the lines of a lattice, each ended by a newline, then the end line
render(l, term) ==
    (IF l.comment = <<>> THEN <<>> ELSE l.comment \o NL)
        \o join(<<>>, [i \in 1..Len(l.recs) |-> record_line(i, l.recs[i]) \o NL])
        \o term

(***************************************************************************)
(* The specification of the converter: a lattice is drawn, converted once. *)
(***************************************************************************)
LatticeIdle ==
    /\ src = [comment |-> <<>>, recs |-> <<>>]
    /\ pattern = EOS
    /\ lattice_all = <<>>
    /\ out = NotCalled

LatticeInit ==
    /\ src \in Lattices
    /\ pattern = EOS
    /\ lattice_all = render(src, EOS)
    /\ out = NotCalled
    /\ an = None
    /\ AnalyzerIdle
    /\ KnpIdle

Convert ==
    /\ out = NotCalled
    /\ out' = lattice_all2juman_lines(lattice_all)
    /\ UNCHANGED <<src, pattern, lattice_all>>
    /\ UNCHANGED analyzer_vars
    /\ UNCHANGED knp_vars

LatticeNext == Convert

SpecLattice == LatticeInit /\ [][LatticeNext]_vars

(***************************************************************************)
(* The same converter behind KNP.parse: the text ends with the configured  *)
(* pattern (knp.py line 90) or, handed over as the tokenizer printed it,   *)
(* with EOS.                                                               *)
(***************************************************************************)
EOP == <<"E", "O", "P">>

Patterns == {EOS, EOP}

\* juman_str = "%s%s" % (juman_lines, self.pattern)
parse_juman_str(l, p) == render(l, p)

PatternInit ==
    /\ src \in Lattices
    /\ pattern \in Patterns
    /\ lattice_all \in {parse_juman_str(src, pattern), render(src, EOS)}
    /\ out = NotCalled
    /\ an = None
    /\ AnalyzerIdle
    /\ KnpIdle

SpecPattern == PatternInit /\ [][LatticeNext]_vars

(***************************************************************************)
(* One caller of an Analyzer: each query runs to its end before the next.  *)
(***************************************************************************)
AnalyzerInit ==
    /\ LatticeIdle
    /\ an \in Analyzers
    /\ AnalyzerIdle
    /\ KnpIdle

Query ==
    /\ Started < MaxCalls
    /\ \E input_str \in Inputs, p \in {regex_of(EOS)}, ok \in BOOLEAN,
          reply \in Replies :
          LET r == Analyzer_query(an, made, sent, input_str, p, ok, reply)
          IN  /\ an' = r.an
              /\ made' = r.made
              /\ sent' = r.sent
              /\ ret' = [ret EXCEPT ![1] = r.ret]
              /\ req' = [req EXCEPT
                            ![1] = [input_str |-> input_str, pattern |-> p]]
    /\ UNCHANGED <<pc, tmp>>
    /\ UNCHANGED lattice_vars
    /\ UNCHANGED knp_vars

AnalyzerNext == Query

SpecAnalyzer == AnalyzerInit /\ [][AnalyzerNext]_vars

(***************************************************************************)
(* Several callers of one Analyzer, each a thread inside Analyzer.query.   *)
(* A thread can be preempted between any two of the steps below: between   *)
(* the test of line 26 and the assignment of line 28 or 30 lies the        *)
(* constructor of the backend, which connects or spawns.  The backend      *)
(* serves one query at a time.                                             *)
(***************************************************************************)
\* the call: query(input_str, pattern)
Call(c) ==
    /\ pc[c] = "idle"
    /\ Started < MaxCalls
    /\ \E input_str \in Inputs :
          req' = [req EXCEPT ![c] = [input_str |-> input_str,
                                    pattern |-> regex_of(EOS)]]
    /\ pc' = [pc EXCEPT ![c] = "test"]
    /\ UNCHANGED <<an, made, sent, ret, tmp>>
    /\ UNCHANGED lattice_vars
    /\ UNCHANGED knp_vars

\* line 26
Test(c) ==
    /\ pc[c] = "test"
    /\ pc' = [pc EXCEPT ![c] = IF needs_backend(an) THEN "construct"
                                ELSE "branch"]
    /\ UNCHANGED <<an, made, sent, req, ret, tmp>>
    /\ UNCHANGED lattice_vars
    /\ UNCHANGED knp_vars

\* lines 27 to 30, the right-hand side: the constructor returns an object
Construct(c) ==
    /\ pc[c] = "construct"
    /\ made' = Append(made, new_backend(an))
    /\ tmp' = [tmp EXCEPT ![c] = ref(Len(made) + 1)]
    /\ pc' = [pc EXCEPT ![c] = "store"]
    /\ UNCHANGED <<an, sent, req, ret>>
    /\ UNCHANGED lattice_vars
    /\ UNCHANGED knp_vars

\* lines 27 to 30, the right-hand side: the constructor raises
ConstructFails(c) ==
    /\ pc[c] = "construct"
    /\ ret' = [ret EXCEPT ![c] = [raised |-> "BackendError", value |-> <<>>]]
    /\ pc' = [pc EXCEPT ![c] = "idle"]
    /\ UNCHANGED <<an, made, sent, req, tmp>>
    /\ UNCHANGED lattice_vars
    /\ UNCHANGED knp_vars

\* lines 28 and 30, the assignment to self.socket or self.subprocess
Store(c) ==
    /\ pc[c] = "store"
    /\ an' = store_backend(an, tmp[c])
    /\ tmp' = [tmp EXCEPT ![c] = None]
    /\ pc' = [pc EXCEPT ![c] = "branch"]
    /\ UNCHANGED <<made, sent, req, ret>>
    /\ UNCHANGED lattice_vars
    /\ UNCHANGED knp_vars

\* lines 32 to 35: the backend is read off the instance and queried
Forward(c) ==
    /\ pc[c] = "branch"
    /\ \E reply \in Replies :
          /\ sent' = backend_query(sent, target(an), req[c].input_str,
                                    req[c].pattern, reply)
          /\ ret' = [ret EXCEPT ![c] = [raised |-> Ok, value |-> reply]]
    /\ pc' = [pc EXCEPT ![c] = "idle"]
    /\ UNCHANGED <<an, made, req, tmp>>
    /\ UNCHANGED lattice_vars
    /\ UNCHANGED knp_vars

ConcNext ==
    \E c \in Callers :
        \/ Call(c)
        \/ Test(c)
        \/ Construct(c)
        \/ ConstructFails(c)
        \/ Store(c)
        \/ Forward(c)

SpecConc == AnalyzerInit /\ [][ConcNext]_vars

(***************************************************************************)
(* KNP.__init__                                                            *)
(***************************************************************************)
\* def __init__(self, backend, server=None, port=None, socket_option=None,
\*              command=None): the keywords Analyzer accepts
AnalyzerParameters ==
    {"backend", "server", "port", "socket_option", "command"}

\* the keywords of the call Analyzer(...) of line 56
SocketKeywords == {"backend", "timeout", "server", "port", "socket_option"}

\* the keywords of the call Analyzer(...) of line 62
SubprocessKeywords == {"backend", "multithreading", "timeout", "command"}

\* option.split() of an option string whose only whitespace is spaces
ws_split(s) == SelectSeq(split(s, " "), LAMBDA w : w # <<>>)

Raise(e) == [raised |-> e, value |-> None]

\* a: the arguments and, for the two checks of lines 65 to 68, whether the
\* rcfile is a file and whether the command is found on the PATH
KNP__init__(a) ==
    LET options == ws_split(a.option)
        cmds == knp_cmds(a.command, options, a.rcfile)
        keywords == IF a.server # None THEN SocketKeywords
                    ELSE SubprocessKeywords
        analyzer ==
            IF a.server # None
            THEN Analyzer__init__("socket", a.server, <<DefaultPort>>,
                                  SocketOption, None)
            ELSE Analyzer__init__("subprocess", None, None, None, cmds)
    IN  IF ~(keywords \subseteq AnalyzerParameters) THEN Raise("TypeError")
        ELSE IF a.rcfile # <<>> /\ ~a.isfile
        THEN Raise("Can't read rcfile")
        ELSE IF ~a.found THEN Raise("Can't find KNP command")
        ELSE [raised |-> Ok,
              value |-> [pattern |-> a.pattern, analyzer |-> analyzer]]

OtherCommand == <<"k", "n", "p", "2">>

OptionStrings ==
    { <<>>, TabOption,
      TabOption \o <<" ", " ">> \o <<"-", "d", "p", "n", "d">> }

KnpArgs ==
    { a \in [command : {KnpCommand, OtherCommand}, server : {None, Host},
             option : OptionStrings, rcfile : {<<>>, RcFile},
             pattern : Patterns, isfile : BOOLEAN, found : BOOLEAN] :
        a.rcfile = <<>> => ~a.isfile }

KnpInit ==
    /\ LatticeIdle
    /\ an = None
    /\ AnalyzerIdle
    /\ juman_format = "DEFAULT"
    /\ result = NotCalled
    /\ args \in KnpArgs
    /\ knp = NotCalled

New_KNP ==
    /\ knp = NotCalled
    /\ knp' = KNP__init__(args)
    /\ UNCHANGED <<juman_format, result, args>>
    /\ UNCHANGED lattice_vars
    /\ UNCHANGED analyzer_vars

KnpNext == New_KNP

SpecKNP == KnpInit /\ [][KnpNext]_vars

(***************************************************************************)
(* KNP.parse_juman_result                                                  *)
(***************************************************************************)
\* JUMAN_FORMAT.DEFAULT and JUMAN_FORMAT.LATTICE_ALL
Formats == {"DEFAULT", "LATTICE_ALL"}

\* BList(text, pattern, juman_format): the arguments the result object is
\* built from
BList(text, p, format) == [text |-> text, pattern |-> p, format |-> format]

\* the loop of lines 155 to 157 over the blocks not yet sent; an exception
\* of a query ends it
RECURSIVE query_each(_, _, _, _, _)
query_each(st, blocks, p, ok, replies) ==
    IF blocks = <<>> \/ st.raised # Ok THEN st
    ELSE LET r == Analyzer_query(st.an, st.made, st.sent, blocks[1],
                                 regex_of(p), ok, replies[1])
         IN  query_each(
                 [an |-> r.an, made |-> r.made, sent |-> r.sent,
                  raised |-> r.ret.raised,
                  blists |-> IF r.ret.raised # Ok THEN st.blists
                             ELSE Append(st.blists,
                                         BList(r.ret.value \o EOS \o NL, p,
                                               "DEFAULT"))],
                 Tail(blocks), p, ok, Tail(replies))

\* self.analyzer is a, self.pattern is p; ok and replies as in
\* Analyzer_query, one reply for each query
parse_juman_result(a, objs, log, p, juman_str, format, ok, replies) ==
    IF format = "LATTICE_ALL"
    THEN LET blocks == lattice_all2juman_lines(juman_str)
             st == query_each([an |-> a, made |-> objs, sent |-> log,
                               raised |-> blocks.raised, blists |-> <<>>],
                              blocks.value, p, ok, replies)
         IN  [an |-> st.an, made |-> st.made, sent |-> st.sent,
              result |-> IF st.raised # Ok THEN Raise(st.raised)
                         ELSE [raised |-> Ok, value |-> st.blists]]
    ELSE LET r == Analyzer_query(a, objs, log, juman_str, regex_of(p), ok,
                                 replies[1])
         IN  [an |-> r.an, made |-> r.made, sent |-> r.sent,
              result |-> IF r.ret.raised # Ok THEN Raise(r.ret.raised)
                         ELSE [raised |-> Ok,
                               value |-> BList(r.ret.value, p, format)]]

\* the lattices of this specification: every record has its ranks
ParseRecords ==
    [id : {<<"1">>},
     ann : [kind : {"ranks"},
            ranks : {<< <<"1">> >>, << <<"2">> >>, << <<"1">>, <<"2">> >>}]]

\* the ranks of ParseRecords: as many blocks at most
MaxBlocks == Cardinality({<<"1">>, <<"2">>})

\* The receiver has the attributes lines 48 to 62 assign: its pattern and
\* an Analyzer on which no query has run.
ParseInit ==
    /\ src \in LatticesOf(ParseRecords, MaxParseLines)
    /\ pattern \in Patterns
    /\ lattice_all \in {parse_juman_str(src, pattern), render(src, EOS)}
    /\ out = NotCalled
    /\ \E server \in {None, Host} :
          an = IF server # None
               THEN Analyzer__init__("socket", server, <<DefaultPort>>,
                                     SocketOption, None)
               ELSE Analyzer__init__("subprocess", None, None, None,
                                     knp_cmds(KnpCommand, <<TabOption>>, <<>>))
    /\ AnalyzerIdle
    /\ juman_format \in Formats
    /\ result = NotCalled
    /\ args = None
    /\ knp = NotCalled

Parse ==
    /\ result = NotCalled
    /\ \E ok \in BOOLEAN, replies \in [1..MaxBlocks -> Replies] :
          LET r == parse_juman_result(an, made, sent, pattern, lattice_all,
                                      juman_format, ok, replies)
          IN  /\ an' = r.an
              /\ made' = r.made
              /\ sent' = r.sent
              /\ result' = r.result
    /\ UNCHANGED <<req, ret, pc, tmp, juman_format, args, knp>>
    /\ UNCHANGED lattice_vars

ParseNext == Parse

SpecParse == ParseInit /\ [][ParseNext]_vars

(***************************************************************************)
(* What the claims read off a lattice and off the blocks returned.         *)
(***************************************************************************)
Called == out # NotCalled

Returned == Called /\ out.raised = Ok

NRecs == Len(src.recs)

\* every record line carries a rank annotation with at least one rank
WellFormed == \A i \in 1..NRecs : src.recs[i].ann.kind = "ranks"

RanksOf(i) == {src.recs[i].ann.ranks[n] : n \in 1..Len(src.recs[i].ann.ranks)}

RankIds == UNION {RanksOf(i) : i \in 1..NRecs}

\* the lines of a block between its comment line and its end line
BlockLines(b) == LET ls == split(b, "\n") IN SubSeq(ls, 2, Len(ls) - 1)

Marked(l) == startswith(l, <<"@", " ">>)

Unmarked(l) == IF Marked(l) THEN SubSeq(l, 3, Len(l)) ELSE l

\* the record a reconstructed line stems from: surfaces are distinct
SrcIndex(l) == CHOOSE i \in 1..Len(Surfaces) : <<Surfaces[i]>> = <<Unmarked(l)[1]>>

\* the JUMAN line of record i, without the marker
FlatLine(i) ==
    <<Surfaces[i]>> \o
    <<" ", "y", " ", "g", " ", "h", " ", "3", " ", "b", " ", "4", " ", "k",
      " ", "5", " ", "K", " ", "6", " ", "\"", "R", "e", "p", ":", "p", " ",
      "f", " ", "r", ":">>
    \o join(<<";">>, src.recs[i].ann.ranks) \o <<"\"">>

\* the records of rank r, in source order
RECURSIVE RecsOfRank(_, _)
RecsOfRank(r, i) ==
    IF i > NRecs THEN <<>>
    ELSE (IF r \in RanksOf(i) THEN <<i>> ELSE <<>>) \o RecsOfRank(r, i + 1)

\* records a..b all carry one morpheme identifier: they lie in one run
SameRun(a, b) == \A i \in a..b : src.recs[i].id = src.recs[a].id

\* record i follows a record with its identifier
FollowsSameId(i) == i > 1 /\ src.recs[i].id = src.recs[i - 1].id

(***************************************************************************)
(* C3: a well-formed lattice with k distinct rank identifiers yields k     *)
(* blocks in ascending order of the rank identifier (a str: "10" < "2"),   *)
(* and the block of rank r holds the reconstructed lines of exactly the    *)
(* records whose rank set contains r, in source order.                     *)
(***************************************************************************)
C3_BlocksPerRank ==
    (Returned /\ WellFormed) =>
        /\ Len(out.value) = Cardinality(RankIds)
        /\ \E f \in [1..Len(out.value) -> RankIds] :
              /\ \A j, k \in DOMAIN f : j < k => str_lt(f[j], f[k])
              /\ \A j \in DOMAIN f :
                    LET ls == BlockLines(out.value[j])
                        is == RecsOfRank(f[j], 1)
                    IN  /\ Len(ls) = Len(is)
                        /\ \A m \in 1..Len(ls) : Unmarked(ls[m]) = FlatLine(is[m])

\* three blocks, ranks "1" < "10" < "2", one record in two of them
C3_Witness ==
    /\ Returned /\ WellFormed
    /\ RankIds = {<<"1">>, <<"1", "0">>, <<"2">>}
    /\ \E i \in 1..NRecs : Cardinality(RanksOf(i)) = 2
    /\ Len(out.value) = 3

(***************************************************************************)
(* C4 as claimed: within each block, of the lines stemming from one run of *)
(* records with the same morpheme identifier, the first has no "@ " and    *)
(* every later one has it.                                                 *)
(***************************************************************************)
C4_MarkerPerRank ==
    Returned =>
        \A j \in 1..Len(out.value) :
            LET ls == BlockLines(out.value[j])
            IN  \A m \in 1..Len(ls) :
                    Marked(ls[m]) <=>
                        (m > 1 /\ SameRun(SrcIndex(ls[m - 1]), SrcIndex(ls[m])))

(***************************************************************************)
(* C4 amended: in every block, a line has the "@ " exactly when its record *)
(* follows, in the source, a record with the same morpheme identifier, or  *)
(* is the first record and its identifier is the initial prev_id '0'; so   *)
(* the later records of a run carry the marker in every block, also where  *)
(* they are the first line of the run in that block.                       *)
(***************************************************************************)
C4_MarkerBySource ==
    Returned =>
        \A j \in 1..Len(out.value) :
            LET ls == BlockLines(out.value[j])
            IN  \A m \in 1..Len(ls) :
                    LET i == SrcIndex(ls[m])
                    IN  Marked(ls[m]) <=>
                            \/ FollowsSameId(i)
                            \/ i = 1 /\ src.recs[1].id = InitialPrevId

\* a run of two records, the first only in rank 1, the second only in
\* rank 2: the block of rank 2 opens with a marked line
C4_Witness ==
    /\ Returned /\ WellFormed /\ NRecs >= 2
    /\ src.recs[1].id = <<"1">> /\ src.recs[2].id = <<"1">>
    /\ RanksOf(1) = {<<"1">>} /\ RanksOf(2) = {<<"2">>}
    /\ Len(out.value) = 2
    /\ ~Marked(BlockLines(out.value[1])[1])
    /\ Marked(BlockLines(out.value[2])[1])

(***************************************************************************)
(* C5 as claimed: a reconstructed line has the "@ " exactly when its       *)
(* record follows a record with the same morpheme identifier; the line of  *)
(* the first record never has it.                                          *)
(***************************************************************************)
C5_MarkerIffPrevious ==
    Returned =>
        /\ \A i \in 1..NRecs : \E j \in 1..Len(out.value) :
                \E m \in 1..Len(BlockLines(out.value[j])) :
                    SrcIndex(BlockLines(out.value[j])[m]) = i
        /\ \A j \in 1..Len(out.value) :
                \A m \in 1..Len(BlockLines(out.value[j])) :
                    LET l == BlockLines(out.value[j])[m]
                    IN  Marked(l) <=> FollowsSameId(SrcIndex(l))

(***************************************************************************)
(* C6 as claimed: whatever pattern P the receiver is configured with, the  *)
(* conversion returns, and each block is the comment line, the lines of    *)
(* the rank and P, the end line of the source being no record.             *)
(***************************************************************************)
C6_BlockShape ==
    Called =>
        /\ out.raised = Ok
        /\ \A j \in 1..Len(out.value) :
              LET ls == split(out.value[j], "\n")
              IN  /\ Len(ls) >= 3
                  /\ ls[1] = src.comment
                  /\ last(ls) = pattern
                  /\ \A m \in 2..(Len(ls) - 1) :
                        SrcIndex(ls[m]) \in 1..NRecs

(***************************************************************************)
(* C8 as claimed: a record line without a rank annotation, or with an      *)
(* empty rank set, makes the conversion raise and return no block.         *)
(***************************************************************************)
C8_MalformedRaises ==
    (Called /\ ~WellFormed) => (out.raised # Ok /\ out.value = <<>>)

(***************************************************************************)
(* What the claims read off an Analyzer.                                   *)
(***************************************************************************)
\* the backend objects the instance refers to
Held == {an.socket, an.subprocess} \ {None}

KindByServer == IF an.server # None THEN "Socket" ELSE "Subprocess"

(***************************************************************************)
(* C1: once a query of one caller has succeeded, exactly one backend has   *)
(* been constructed, however many queries followed, and every query went   *)
(* to that object, which the instance still holds.                         *)
(***************************************************************************)
C1_BackendOnce ==
    /\ Len(made) <= 1
    /\ Len(sent) >= 1 =>
          /\ Len(made) = 1
          /\ Held = {ref(1)}
          /\ \A k \in 1..Len(sent) : sent[k].to = ref(1)

\* a backend built by a subprocess Analyzer has answered two queries
C1_Witness ==
    /\ Len(sent) >= 2
    /\ Len(made) = 1
    /\ made[1].kind = "Subprocess"

C10_OneBackendConcurrent ==
    /\ Len(made) <= 1
    /\ \A k \in 1..Len(sent) : sent[k].to = ref(1)

(***************************************************************************)
(* What the claims read off a call of parse_juman_result.                  *)
(***************************************************************************)
ParseReturned == result # NotCalled /\ result.raised = Ok

BlocksOfInput == lattice_all2juman_lines(lattice_all).value

QueriesAsClaimed ==
    IF juman_format = "LATTICE_ALL"
    THEN /\ Len(BlocksOfInput) = Cardinality(RankIds)
         /\ Len(sent) = Len(BlocksOfInput)
         /\ Len(result.value) = Len(BlocksOfInput)
         /\ \A k \in 1..Len(sent) :
               /\ sent[k].input_str = BlocksOfInput[k]
               /\ sent[k].pattern = <<"^">> \o pattern \o <<"$">>
    ELSE /\ Len(sent) = 1
         /\ sent[1].input_str = lattice_all
         /\ sent[1].pattern = <<"^">> \o pattern \o <<"$">>
         /\ result.value = BList(sent[1].reply, pattern, juman_format)

(***************************************************************************)
(* C7 amended: parse_juman_result, when it returns, has sent exactly one   *)
(* query with the text and '^pattern$' in default mode and built the       *)
(* result from the reply as it came; in lattice-all mode it has sent one   *)
(* query per block of the converter, in the order of the blocks and with   *)
(* the same pattern, and built one result per reply, in the same order,    *)
(* from the reply with 'EOS\n' appended and the format DEFAULT.            *)
(***************************************************************************)
C7_QueriesPerBlock ==
    ParseReturned =>
        /\ QueriesAsClaimed
        /\ juman_format = "LATTICE_ALL" =>
              \A k \in 1..Len(sent) :
                  result.value[k] =
                      BList(sent[k].reply \o <<"E", "O", "S", "\n">>, pattern,
                            "DEFAULT")

\* two blocks, two different replies, a pattern other than EOS
C7_Witness ==
    /\ ParseReturned
    /\ juman_format = "LATTICE_ALL"
    /\ pattern = EOP
    /\ Len(sent) = 2
    /\ sent[1].reply # sent[2].reply
    /\ Len(result.value) = 2

(***************************************************************************)
(* C7 as claimed: as above, but in lattice-all mode each result is built   *)
(* from the reply unchanged.                                               *)
(***************************************************************************)
C7_RepliesUnchanged ==
    ParseReturned =>
        /\ QueriesAsClaimed
        /\ juman_format = "LATTICE_ALL" =>
              \A k \in 1..Len(sent) : result.value[k].text = sent[k].reply

(***************************************************************************)
(* C9 as claimed: when the command is not found or the rcfile is no file,  *)
(* KNP(...) raises that failure, and no backend exists and no query has    *)
(* run by then.                                                            *)
(***************************************************************************)
C9_ConfigFailureAtConstruction ==
    (knp # NotCalled /\ (~args.found \/ (args.rcfile # <<>> /\ ~args.isfile)))
        => /\ knp.raised \in {"Can't read rcfile", "Can't find KNP command"}
           /\ made = <<>>
           /\ sent = <<>>

====
